---------------------------- MODULE Spec2Model ----------------------------
(***************************************************************************)
(* A model of the voice front end of Basic-Chatbot-Setup:                  *)
(*   - client/vad.py      ContinuousVAD: capture thread, segment assembly, *)
(*                        speech_queue, start_listening / stop_listening   *)
(*   - client/voiceBot.py VoiceBot.ask: token producer task, sentence      *)
(*                        buffer, interleaving of text and audio pairs     *)
(*   - client/memory.py   Memory.add_message / get_conversation_context    *)
(* Audio frames are identified by their capture index (1, 2, 3, ...); text *)
(* is a sequence of one-character strings.                                 *)
(***************************************************************************)
EXTENDS Integers, Sequences, FiniteSets, TLC

\* ------------------------------------------------------------------ bounds
MaxFrames == 22      \* frames the microphone delivers in one behaviour
MaxErrors == 1       \* read glitches and classifier failures, in SpecCapture
MaxStarts == 2       \* start_listening calls that reach PyAudio()
MaxSessions == 1     \* of them, calls that open the microphone, in SpecOpenFailure
MaxOpenFrames == 1   \* frames delivered in SpecOpenFailure
MaxStopFrames == 21  \* frames delivered in SpecStop
MaxLostFrames == 3   \* frames delivered in SpecLost
MaxLifeFrames == 2   \* frames delivered in SpecLife
MaxLifeErrors == 1   \* read glitches and classifier failures, in SpecLife
MaxTokens == 2       \* chunks the chat model yields in one ask
MaxChunks == 1       \* audio chunks the synthesizer yields for one text
MaxAdds == 4         \* messages loaded and added, in SpecMemory
MaxLimit == 3        \* largest max_messages argument, in SpecMemory
MaxAsks == 1         \* ask calls that end and are followed by another one,
                     \* in SpecContext

\* ------------------------------------------------------- program constants
silence_threshold == 20
min_speech_frames == 10
pre_speech_buffer_size == 10
\* queue.Queue() is constructed without a maxsize: 0, which the library
\* reads as "no capacity".
maxsize == 0
\* the RIFF/WAVE header wave.open writes in front of the joined frames
WavHeader == 0
\* Memory(max_messages=50)
max_messages == 50

VARIABLES
  \* ContinuousVAD fields
  is_running, listen_thread, audio_stream, audio_context, speech_queue,
  current_speech_frames, is_speech_active, silence_count, pre_speech_buffer,
  \* capture threads: position, the stream a blocked read holds, frame in hand
  wpc, wstream, wframe,
  \* the controlling thread's position inside start_listening/stop_listening
  mpc,
  \* the audio device: stream and context objects still open
  open_streams, live_contexts,
  \* history: frames captured, start_listening calls made, consecutive
  \* completed stop_listening calls, onset frame and speech runs of the
  \* segment being assembled
  nframes, nerrors, nstarts, stops_in_row, onset, run, max_run,
  \* history: the last start_listening/stop_listening call made
  last_call,
  \* VoiceBot.ask: arguments and locals
  prompt, context_id, with_tts, messages, full_response, ai_queue, chunk,
  sentence_buffer,
  \* Memory.conversations
  conversations,
  \* positions of the ask generator and of the ai_generator task
  apc, ppc,
  \* history: chunks the model yielded, pairs emitted to the caller, texts
  \* passed to tts_stream_response, the token each buffered character came
  \* with, the length of the history ask started from
  tokens, out, tts_calls, buffer_src, prior_len,
  \* Memory.max_messages; history: the messages loaded and added, in order
  mem_max_messages, mem_log,
  \* history: the ask calls that have ended
  nasks

vadVars == <<is_running, listen_thread, audio_stream, audio_context,
             speech_queue, current_speech_frames, is_speech_active,
             silence_count, pre_speech_buffer, wpc, wstream, wframe, mpc,
             open_streams, live_contexts, nframes, nerrors, nstarts,
             stops_in_row, last_call,
             onset, run, max_run>>

askVars == <<prompt, context_id, with_tts, messages, full_response, ai_queue,
             chunk, sentence_buffer, conversations, apc, ppc, tokens, out,
             tts_calls, buffer_src, prior_len>>

\* the Memory instance: its max_messages argument, and every message it was
\* given (the loaded ones first), in SpecMemory
memVars == <<mem_max_messages, mem_log, nasks>>

vars == <<vadVars, askVars, memVars>>

Workers == 1..MaxStarts
None == 0

Max(a, b) == IF a >= b THEN a ELSE b
Min(a, b) == IF a <= b THEN a ELSE b

\* ---------------------------------------------------------- ContinuousVAD

\* _frames_to_wav_bytes: b"" for no frames, else header + joined frames
FramesToWavBytes(frames) ==
  IF frames = <<>> THEN <<>> ELSE <<WavHeader>> \o frames

\* queue.Queue.put_nowait raises Full only when 0 < maxsize <= qsize; the
\* handler drops the item
QueueFull(q) == 0 < maxsize /\ maxsize <= Len(q)

PutNowait(q, item) == IF QueueFull(q) THEN q ELSE Append(q, item)

\* "Only queue if we have enough speech frames"
EnoughFrames(frames) == Len(frames) >= min_speech_frames

\* the queue after the end of an utterance whose buffer is frames
QueueAfterSpeechEnd(q, frames) ==
  IF EnoughFrames(frames) /\ FramesToWavBytes(frames) # <<>>
  THEN PutNowait(q, FramesToWavBytes(frames))
  ELSE q

\* pre_speech_buffer.append(frame); pop(0) when over pre_speech_buffer_size
PushPreSpeech(buf, frame) ==
  LET b == Append(buf, frame)
  IN IF Len(b) > pre_speech_buffer_size THEN Tail(b) ELSE b

\* the seed of a new segment: list(self.pre_speech_buffer)
LeadIn(buf) == buf

SpeechEnded(count) == count >= silence_threshold

IsAlive(w) == wpc[w] \in {"loop", "read", "proc"}

InitVAD ==
  /\ is_running = FALSE
  /\ listen_thread = None
  /\ audio_stream = None
  /\ audio_context = None
  /\ speech_queue = <<>>
  /\ current_speech_frames = <<>>
  /\ is_speech_active = FALSE
  /\ silence_count = 0
  /\ pre_speech_buffer = <<>>
  /\ wpc = [w \in Workers |-> "none"]
  /\ wstream = [w \in Workers |-> None]
  /\ wframe = [w \in Workers |-> None]
  /\ mpc = "ready"
  /\ open_streams = {}
  /\ live_contexts = {}
  /\ nframes = 0
  /\ nerrors = 0
  /\ nstarts = 0
  /\ stops_in_row = 0
  /\ last_call = "none"
  /\ onset = None
  /\ run = 0
  /\ max_run = 0

deviceVars == <<audio_stream, audio_context, open_streams, live_contexts>>
ctlVars == <<is_running, listen_thread, mpc, nstarts, stops_in_row,
             last_call>>
segVars == <<speech_queue, current_speech_frames, is_speech_active,
             silence_count, pre_speech_buffer, onset, run, max_run>>

\* _reset_speech_detection
ResetSpeechDetection ==
  /\ is_speech_active' = FALSE
  /\ current_speech_frames' = <<>>
  /\ silence_count' = 0
  /\ onset' = None
  /\ run' = 0
  /\ max_run' = 0

\* while self.is_running:
LoopCheck(w) ==
  /\ UNCHANGED <<askVars, memVars>>
  /\ wpc[w] = "loop"
  /\ wpc' = [wpc EXCEPT ![w] = IF is_running THEN "read" ELSE "done"]
  /\ wstream' = [wstream EXCEPT ![w] = IF is_running THEN audio_stream ELSE None]
  /\ UNCHANGED <<wframe, nframes, nerrors, deviceVars, ctlVars, segVars>>

\* self.audio_stream.read(...) returns the next frame of an open stream
ReadFrame(w, max_frames) ==
  /\ UNCHANGED <<askVars, memVars>>
  /\ wpc[w] = "read"
  /\ wstream[w] \in open_streams
  /\ nframes < max_frames
  /\ nframes' = nframes + 1
  /\ wframe' = [wframe EXCEPT ![w] = nframes + 1]
  /\ wpc' = [wpc EXCEPT ![w] = "proc"]
  /\ UNCHANGED <<wstream, nerrors, deviceVars, ctlVars, segVars>>

\* the read raises: self.audio_stream is None, the stream has been closed,
\* or an open stream glitches; the handler logs, sleeps 0.1 s when still
\* running, and the loop goes on
ReadError(w, max_errors) ==
  /\ UNCHANGED <<askVars, memVars>>
  /\ wpc[w] = "read"
  /\ IF wstream[w] \in open_streams
     THEN nerrors < max_errors /\ nerrors' = nerrors + 1
     ELSE UNCHANGED nerrors
  /\ wpc' = [wpc EXCEPT ![w] = "loop"]
  /\ wstream' = [wstream EXCEPT ![w] = None]
  /\ UNCHANGED <<wframe, nframes, deviceVars, ctlVars, segVars>>

\* vad.is_speech raises on the frame in hand: the handler runs and the
\* frame is dropped
ClassifyError(w, max_errors) ==
  /\ UNCHANGED <<askVars, memVars>>
  /\ wpc[w] = "proc"
  /\ nerrors < max_errors
  /\ nerrors' = nerrors + 1
  /\ wpc' = [wpc EXCEPT ![w] = "loop"]
  /\ wframe' = [wframe EXCEPT ![w] = None]
  /\ wstream' = [wstream EXCEPT ![w] = None]
  /\ UNCHANGED <<nframes, deviceVars, ctlVars, segVars>>

\* the speech runs of the utterance, counted up to min_speech_frames
RunAfter(r, is_speech) ==
  IF is_speech THEN Min(r + 1, min_speech_frames) ELSE 0

\* the rest of one loop iteration, from the classification of the frame in
\* hand to the end of the if/else
ProcessFrame(w) ==
  /\ UNCHANGED <<askVars, memVars>>
  /\ wpc[w] = "proc"
  /\ wpc' = [wpc EXCEPT ![w] = "loop"]
  /\ wframe' = [wframe EXCEPT ![w] = None]
  /\ wstream' = [wstream EXCEPT ![w] = None]
  /\ UNCHANGED <<nframes, nerrors, deviceVars, ctlVars>>
  /\ \E is_speech \in BOOLEAN :
       LET frame == wframe[w] IN
       IF is_speech THEN
         \* speech: start a segment with the lead-in when IDLE, append
         /\ is_speech_active' = TRUE
         /\ current_speech_frames' =
              Append(IF is_speech_active THEN current_speech_frames
                     ELSE LeadIn(pre_speech_buffer), frame)
         /\ silence_count' = 0
         /\ onset' = IF is_speech_active THEN onset ELSE frame
         /\ run' = RunAfter(IF is_speech_active THEN run ELSE 0, TRUE)
         /\ max_run' = Max(IF is_speech_active THEN max_run ELSE 0, run')
         /\ UNCHANGED <<speech_queue, pre_speech_buffer>>
       ELSE IF is_speech_active THEN
         \* trailing silence: append, count, end the utterance at the threshold
         IF SpeechEnded(silence_count + 1) THEN
           /\ speech_queue' =
                QueueAfterSpeechEnd(speech_queue,
                                    Append(current_speech_frames, frame))
           /\ ResetSpeechDetection
           /\ UNCHANGED pre_speech_buffer
         ELSE
           /\ current_speech_frames' = Append(current_speech_frames, frame)
           /\ silence_count' = silence_count + 1
           /\ run' = RunAfter(run, FALSE)
           /\ UNCHANGED <<speech_queue, is_speech_active, pre_speech_buffer,
                          onset, max_run>>
       ELSE
         \* IDLE: maintain the pre-speech buffer
         /\ pre_speech_buffer' = PushPreSpeech(pre_speech_buffer, frame)
         /\ UNCHANGED <<speech_queue, current_speech_frames, is_speech_active,
                        silence_count, onset, run, max_run>>

Worker(w, max_frames, max_errors) ==
  \/ LoopCheck(w)
  \/ ReadFrame(w, max_frames)
  \/ ReadError(w, max_errors)
  \/ ClassifyError(w, max_errors)
  \/ ProcessFrame(w)

\* ------------------------------------------- start_listening/stop_listening

\* if self.is_running: print("Already listening"); return
StartAlreadyListening ==
  /\ UNCHANGED <<askVars, memVars>>
  /\ mpc = "ready"
  /\ is_running
  /\ UNCHANGED vadVars

\* the capture threads started so far
Started == {w \in Workers : wpc[w] # "none"}

\* PyAudio(), open(), queue cleared, is_running = True, thread started; at
\* most max_sessions calls get that far
StartListeningUpTo(max_sessions) ==
  /\ UNCHANGED <<askVars, memVars>>
  /\ mpc = "ready"
  /\ ~is_running
  /\ nstarts < MaxStarts
  /\ Cardinality(Started) < max_sessions
  /\ nstarts' = nstarts + 1
  /\ audio_context' = nstarts + 1
  /\ live_contexts' = live_contexts \cup {nstarts + 1}
  /\ audio_stream' = nstarts + 1
  /\ open_streams' = open_streams \cup {nstarts + 1}
  /\ speech_queue' = <<>>
  /\ is_running' = TRUE
  /\ listen_thread' = nstarts + 1
  /\ wpc' = [wpc EXCEPT ![nstarts + 1] = "loop"]
  /\ stops_in_row' = 0
  /\ last_call' = "start"
  /\ UNCHANGED <<current_speech_frames, is_speech_active, silence_count,
                 pre_speech_buffer, wstream, wframe, mpc, nframes, nerrors, onset,
                 run, max_run>>

StartListening == StartListeningUpTo(MaxStarts)

\* a start_listening whose except clause returns without stop_listening
ReturnToCaller == "ready"

\* where start_listening goes on when PyAudio() or open() raises: the
\* handler calls stop_listening, after its first statement
AfterStartFailure == "join"

\* PyAudio() raises: the handler calls stop_listening, which first clears
\* is_running
StartFailsNoContext ==
  /\ UNCHANGED <<askVars, memVars>>
  /\ mpc = "ready"
  /\ ~is_running
  /\ nstarts < MaxStarts
  /\ nstarts' = nstarts + 1
  /\ is_running' = FALSE
  /\ mpc' = AfterStartFailure
  /\ last_call' = "start_failed"
  /\ UNCHANGED <<listen_thread, deviceVars, segVars, wpc, wstream, wframe,
                 nframes, nerrors, stops_in_row>>

\* audio_context.open() raises: the context exists, the stream does not
StartFailsNoStream ==
  /\ UNCHANGED <<askVars, memVars>>
  /\ mpc = "ready"
  /\ ~is_running
  /\ nstarts < MaxStarts
  /\ nstarts' = nstarts + 1
  /\ audio_context' = nstarts + 1
  /\ live_contexts' = live_contexts \cup {nstarts + 1}
  /\ is_running' = FALSE
  /\ mpc' = AfterStartFailure
  /\ last_call' = "start_failed"
  /\ UNCHANGED <<listen_thread, audio_stream, open_streams, segVars, wpc,
                 wstream, wframe, nframes, nerrors, stops_in_row>>

\* stop_listening: self.is_running = False
StopBegin ==
  /\ UNCHANGED <<askVars, memVars>>
  /\ mpc = "ready"
  /\ is_running' = FALSE
  /\ mpc' = "join"
  /\ last_call' = "stop"
  /\ UNCHANGED <<listen_thread, deviceVars, segVars, wpc, wstream, wframe,
                 nframes, nerrors, nstarts, stops_in_row>>

\* no thread, a dead thread, or join returns because the thread ended
StopJoined ==
  /\ UNCHANGED <<askVars, memVars>>
  /\ mpc = "join"
  /\ IF listen_thread = None THEN TRUE ELSE ~IsAlive(listen_thread)
  /\ mpc' = "close"
  /\ UNCHANGED <<is_running, listen_thread, deviceVars, segVars, wpc, wstream,
                 wframe, nframes, nerrors, nstarts, stops_in_row, last_call>>

\* join(timeout=2.0) gives up on a thread still blocked in its frame read
StopJoinTimeout ==
  /\ UNCHANGED <<askVars, memVars>>
  /\ mpc = "join"
  /\ listen_thread # None
  /\ wpc[listen_thread] = "read"
  /\ mpc' = "close"
  /\ UNCHANGED <<is_running, listen_thread, deviceVars, segVars, wpc, wstream,
                 wframe, nframes, nerrors, nstarts, stops_in_row, last_call>>

\* the streams open after stop_stream(); close() of stream s: an exception
\* there is caught and leaves the stream open
StreamsAfterClose(streams, s, raised) ==
  IF s = None \/ raised THEN streams ELSE streams \ {s}

ContextsAfterTerminate(contexts, c, raised) ==
  IF c = None \/ raised THEN contexts ELSE contexts \ {c}

\* close audio resources, reset state, return
StopClose ==
  /\ UNCHANGED <<askVars, memVars>>
  /\ mpc = "close"
  /\ \E stream_raises, context_raises \in BOOLEAN :
       /\ open_streams' =
            StreamsAfterClose(open_streams, audio_stream, stream_raises)
       /\ live_contexts' =
            ContextsAfterTerminate(live_contexts, audio_context,
                                   context_raises)
  /\ audio_stream' = None
  /\ audio_context' = None
  /\ ResetSpeechDetection
  /\ mpc' = "ready"
  /\ stops_in_row' = Min(stops_in_row + 1, 2)
  /\ UNCHANGED <<is_running, listen_thread, speech_queue, pre_speech_buffer,
                 wpc, wstream, wframe, nframes, nerrors, nstarts, last_call>>

\* get_speech_audio returns the oldest queued segment
GetSpeechAudio ==
  /\ UNCHANGED <<askVars, memVars>>
  /\ speech_queue # <<>>
  /\ speech_queue' = Tail(speech_queue)
  /\ UNCHANGED <<is_running, listen_thread, deviceVars, current_speech_frames,
                 is_speech_active, silence_count, pre_speech_buffer, wpc,
                 wstream, wframe, mpc, nframes, nerrors, nstarts, stops_in_row,
                 last_call, onset, run, max_run>>

Controller ==
  \/ StartAlreadyListening
  \/ StartListening
  \/ StartFailsNoContext
  \/ StartFailsNoStream
  \/ StopBegin
  \/ StopJoined
  \/ StopJoinTimeout
  \/ StopClose

\* one capture session: start_listening, the capture thread, a consumer
NextCapture ==
  \/ StartListening
  \/ StartAlreadyListening
  \/ GetSpeechAudio
  \/ \E w \in Workers : Worker(w, MaxFrames, MaxErrors)

\* the whole life cycle, with a microphone that delivers fewer frames
NextLife ==
  \/ Controller
  \/ \E w \in Workers : Worker(w, MaxLifeFrames, MaxLifeErrors)

\* the life cycle with fewer microphone openings that succeed
NextOpenFailure ==
  \/ StartListeningUpTo(MaxSessions)
  \/ StartAlreadyListening
  \/ StartFailsNoContext
  \/ StartFailsNoStream
  \/ StopBegin
  \/ StopJoined
  \/ StopJoinTimeout
  \/ StopClose
  \/ \E w \in Workers : Worker(w, MaxOpenFrames, MaxLifeErrors)

\* stop_listening requested while a segment is ACTIVE
StopWhileActive == is_speech_active /\ StopBegin

\* one capture session that is stopped during a segment
NextStop ==
  \/ StartListeningUpTo(MaxSessions)
  \/ StopWhileActive
  \/ StopJoined
  \/ StopJoinTimeout
  \/ StopClose
  \/ \E w \in Workers : Worker(w, MaxStopFrames, MaxErrors)

\* the microphone goes away during a session (unplugged, driver reset):
\* from then on every audio_stream.read of the session raises
DeviceLost ==
  /\ UNCHANGED <<askVars, memVars>>
  /\ is_running
  /\ audio_stream \in open_streams
  /\ open_streams' = open_streams \ {audio_stream}
  /\ UNCHANGED <<audio_stream, audio_context, live_contexts, ctlVars, segVars,
                 wpc, wstream, wframe, nframes, nerrors>>

\* one capture session whose microphone may go away
NextLost ==
  \/ StartListeningUpTo(MaxSessions)
  \/ DeviceLost
  \/ \E w \in Workers : Worker(w, MaxLostFrames, MaxLifeErrors)

\* ------------------------------------------------------------------ text

IsSpace(c) == c = " "

\* the first and last index of s that str.strip() keeps (hi < lo: nothing)
StripLo(s) ==
  IF \E i \in 1..Len(s) : ~IsSpace(s[i])
  THEN CHOOSE i \in 1..Len(s) :
         ~IsSpace(s[i]) /\ \A j \in 1..(i - 1) : IsSpace(s[j])
  ELSE 1

StripHi(s) ==
  IF \E i \in 1..Len(s) : ~IsSpace(s[i])
  THEN CHOOSE i \in 1..Len(s) :
         ~IsSpace(s[i]) /\ \A j \in (i + 1)..Len(s) : IsSpace(s[j])
  ELSE 0

\* str.strip()
Strip(s) == SubSeq(s, StripLo(s), StripHi(s))

\* the elements of t at the places strip() keeps of s (Len(t) = Len(s))
StripLike(t, s) == SubSeq(t, StripLo(s), StripHi(s))

\* punct in s
Contains(s, c) == \E i \in 1..Len(s) : s[i] = c

\* s.rfind(c) + 1, for c in s
RFindEnd(s, c) == CHOOSE i \in 1..Len(s) :
                    s[i] = c /\ \A j \in (i + 1)..Len(s) : s[j] # c

\* '.!?' in the order the for loop tries them
Puncts == <<".", "!", "?">>

IsPunct(c) == \E k \in 1..Len(Puncts) : Puncts[k] = c

\* any(punct in sentence_buffer for punct in '.!?')
HasPunct(s) == \E k \in 1..Len(Puncts) : Contains(s, Puncts[k])

\* idx of the loop's first hit: rfind of the first punct of '.!?' in s, + 1
CutIndex(s) ==
  LET k == CHOOSE k \in 1..Len(Puncts) :
             Contains(s, Puncts[k])
             /\ \A j \in 1..(k - 1) : ~Contains(s, Puncts[j])
  IN RFindEnd(s, Puncts[k])

\* sentence = sentence_buffer[:idx].strip()
SentenceOf(s) == Strip(SubSeq(s, 1, CutIndex(s)))

\* sentence_buffer = sentence_buffer[idx:].strip()
RestOf(s) == Strip(SubSeq(s, CutIndex(s) + 1, Len(s)))

RECURSIVE Concat(_)
Concat(ss) == IF ss = <<>> THEN <<>> ELSE Head(ss) \o Concat(Tail(ss))

\* ---------------------------------------------------------------- Memory

Message(ctx, role, content) ==
  [context_id |-> ctx, role |-> role, content |-> content]

\* a truncation that keeps the oldest messages instead of the newest
KeepOldest(c, limit) ==
  IF Len(c) > limit THEN SubSeq(c, 1, limit) ELSE c

\* self.conversations[-self.max_messages:] when the list is longer
KeepRecent(c, limit) ==
  IF Len(c) > limit THEN SubSeq(c, Len(c) - limit + 1, Len(c)) ELSE c

\* Memory.add_message of a Memory(max_messages=limit) (the timestamp is not
\* modelled): append, keep the last limit messages
AddMessageTo(convs, limit, ctx, role, content) ==
  KeepRecent(Append(convs, Message(ctx, role, content)), limit)

\* an add_message that puts the message in front of the list
PrependMessage(convs, ctx, role, content) ==
  KeepRecent(<<Message(ctx, role, content)>> \o convs, max_messages)

\* Memory.add_message of VoiceBot's Memory()
AddMessage(convs, ctx, role, content) ==
  AddMessageTo(convs, max_messages, ctx, role, content)

\* a projection without the context_id test
AllRolesAndContents(convs, ctx) ==
  [i \in 1..Len(convs) |-> [role |-> convs[i].role, content |-> convs[i].content]]

\* Memory.get_conversation_context
GetConversationContext(convs, ctx) ==
  LET InContext(m) == m.context_id = ctx
      own == SelectSeq(convs, InContext)
  IN [i \in 1..Len(own) |-> [role |-> own[i].role, content |-> own[i].content]]

\* ----------------------------------------------------------- VoiceBot.ask

\* chunks the chat model may yield
Tok_Empty == <<>>
Tok_Space == <<" ">>
Tok_Hi == <<"H", "i">>
Tok_There == <<" ", "t", "h", "e", "r", "e", ".", " ">>
Tok_Hello == <<"H", "e", "l", "l", "o", " ", "w", "o", "r", "l", "d", ".", " ", "H", "o", "w", " ", "a", "r", "e">>
Tok_You == <<" ", "y", "o", "u", "?", " ", "F", "i", "n", "e", ".">>
Tok_Yes == <<"Y", "e", "s", ".", " ", "O", "k", "?">>
Tok_NoSo == <<"N", "o", ".", " ", "S", "o", " ">>

Tokens == {Tok_Empty, Tok_Space, Tok_Hi, Tok_There, Tok_Hello, Tok_You,
           Tok_Yes}

\* chunks whose words are separated by whitespace at a chunk's end or in a
\* chunk of its own
SpacedTokens == {Tok_Space, Tok_Hi, Tok_NoSo}

Prompts == {<<"H", "e", "y">>}
Contexts == {"general", "other"}

\* the history load_memory finds on disk: an exchange in context "other"
PriorHistories ==
  {<<Message("other", "user", <<"H", "i">>),
     Message("other", "assistant", <<"Y", "o">>)>>}

\* the None that ends the queue
EndOfStream == <<"None">>

TextPair(c) == [kind |-> "text", text |-> c, call |-> 0, n |-> 0]
AudioPair(j, k) == [kind |-> "audio", text |-> <<>>, call |-> j, n |-> k]

IsText(pair) == pair.kind = "text"

\* the number of text pairs emitted: the ordinal of the token in hand
NText == Len(SelectSeq(out, IsText))

\* the token the first terminator of a text came with (0: no terminator)
DoneBy(text, src) ==
  IF \E i \in 1..Len(text) : IsPunct(text[i])
  THEN src[CHOOSE i \in 1..Len(text) :
             IsPunct(text[i]) /\ \A j \in 1..(i - 1) : ~IsPunct(text[j])]
  ELSE 0

TtsCall(text, src, final) ==
  [text |-> text, at |-> NText, done_by |-> DoneBy(text, src),
   final |-> final, status |-> "inflight", chunks |-> 0]

\* a forwarding without the chunk.strip() test
ForwardAll(c) == TRUE

\* if chunk.strip(): the chunks that are put on ai_queue or yielded
Forwarded(c) == Strip(c) # <<>>

\* a recording without the "if full_response" test of line 120
RecordAlways(convs, ctx, response) ==
  AddMessage(convs, ctx, "assistant", response)

\* if full_response: self.memory.add_message(context_id, "assistant", ...)
RecordAssistant(convs, ctx, response) ==
  IF response # <<>> THEN AddMessage(convs, ctx, "assistant", response)
  ELSE convs

\* no ask call made yet
InitAskLocals ==
  /\ prompt = <<>>
  /\ context_id = "general"
  /\ with_tts = TRUE
  /\ messages = <<>>
  /\ full_response = <<>>
  /\ ai_queue = <<>>
  /\ chunk = <<>>
  /\ sentence_buffer = <<>>
  /\ apc = "idle"
  /\ ppc = "idle"
  /\ tokens = <<>>
  /\ out = <<>>
  /\ tts_calls = <<>>
  /\ buffer_src = <<>>

InitAsk ==
  /\ InitAskLocals
  /\ conversations \in PriorHistories \cup {<<>>}
  /\ prior_len = Len(conversations)

\* the call: the user message is recorded, the context read; with_tts starts
\* the ai_generator task
AskStart ==
  /\ apc = "idle"
  /\ \E p \in Prompts, ctx \in Contexts, tts \in BOOLEAN :
       /\ prompt' = p
       /\ context_id' = ctx
       /\ with_tts' = tts
       /\ conversations' = AddMessage(conversations, ctx, "user", p)
       /\ messages' = GetConversationContext(conversations', ctx)
       /\ apc' = IF tts THEN "get" ELSE "stream"
       /\ ppc' = IF tts THEN "running" ELSE "idle"
  /\ full_response' = <<>>
  /\ UNCHANGED <<ai_queue, chunk, sentence_buffer, tokens, out, tts_calls,
                 buffer_src, prior_len,
                 vadVars, memVars>>

\* ai_generator: the model yields a chunk; it is queued if chunk.strip()
ProducerTokenFrom(chunks) ==
  /\ ppc = "running"
  /\ Len(tokens) < MaxTokens
  /\ \E t \in chunks :
       /\ tokens' = Append(tokens, t)
       /\ ai_queue' = IF Forwarded(t) THEN Append(ai_queue, t) ELSE ai_queue
  /\ UNCHANGED <<prompt, context_id, with_tts, messages, full_response, chunk,
                 sentence_buffer, conversations, apc, ppc, out, tts_calls,
                 buffer_src, prior_len,
                 vadVars, memVars>>

ProducerToken == ProducerTokenFrom(Tokens)

\* ai_generator: the model's stream ends (gen_ai_stream_response returns, or
\* catches its own failure): None is queued
ProducerEnd ==
  /\ ppc = "running"
  /\ ai_queue' = Append(ai_queue, EndOfStream)
  /\ ppc' = "done"
  /\ UNCHANGED <<prompt, context_id, with_tts, messages, full_response, chunk,
                 sentence_buffer, conversations, apc, tokens, out, tts_calls,
                 buffer_src, prior_len,
                 vadVars, memVars>>

\* chunk = await ai_queue.get(), a token: added to full_response and yielded
GetToken ==
  /\ apc = "get"
  /\ ai_queue # <<>>
  /\ Head(ai_queue) # EndOfStream
  /\ ai_queue' = Tail(ai_queue)
  /\ chunk' = Head(ai_queue)
  /\ full_response' = full_response \o Head(ai_queue)
  /\ out' = Append(out, TextPair(Head(ai_queue)))
  /\ apc' = "text"
  /\ UNCHANGED <<prompt, context_id, with_tts, messages, sentence_buffer,
                 conversations, ppc, tokens, tts_calls, buffer_src, prior_len,
                 vadVars, memVars>>

\* a flush of the remainder without the strip() test
FlushAlways(buffer) == TRUE

\* if sentence_buffer.strip(): the remainder is synthesized
HasRemainder(buffer) == Strip(buffer) # <<>>

\* chunk = await ai_queue.get(), the None: the rest of the buffer is
\* synthesized if sentence_buffer.strip()
GetEnd ==
  /\ apc = "get"
  /\ ai_queue # <<>>
  /\ Head(ai_queue) = EndOfStream
  /\ ai_queue' = Tail(ai_queue)
  /\ IF HasRemainder(sentence_buffer)
     THEN /\ tts_calls' =
               Append(tts_calls, TtsCall(sentence_buffer, buffer_src, TRUE))
          /\ apc' = "tts_final"
     ELSE /\ apc' = "join"
          /\ UNCHANGED tts_calls
  /\ UNCHANGED <<prompt, context_id, with_tts, messages, full_response, chunk,
                 sentence_buffer, conversations, ppc, tokens, out, buffer_src,
                 prior_len,
                 vadVars, memVars>>

\* the caller resumes the generator after a text pair: the chunk joins
\* sentence_buffer, which is cut once if it holds a terminator
AfterText ==
  /\ apc = "text"
  /\ LET buffer == sentence_buffer \o chunk
         src == buffer_src \o [i \in 1..Len(chunk) |-> NText]
         idx == CutIndex(buffer)
     IN IF HasPunct(buffer)
        THEN /\ sentence_buffer' = RestOf(buffer)
             /\ buffer_src' = StripLike(SubSeq(src, idx + 1, Len(src)),
                                        SubSeq(buffer, idx + 1, Len(buffer)))
             /\ IF SentenceOf(buffer) # <<>>
                THEN /\ tts_calls' =
                          Append(tts_calls,
                                 TtsCall(SentenceOf(buffer),
                                         StripLike(SubSeq(src, 1, idx),
                                                   SubSeq(buffer, 1, idx)),
                                         FALSE))
                     /\ apc' = "tts"
                ELSE /\ apc' = "get"
                     /\ UNCHANGED tts_calls
        ELSE /\ sentence_buffer' = buffer
             /\ buffer_src' = src
             /\ apc' = "get"
             /\ UNCHANGED tts_calls
  /\ UNCHANGED <<prompt, context_id, with_tts, messages, full_response,
                 ai_queue, chunk, conversations, ppc, tokens, out, prior_len,
                 vadVars, memVars>>

InTts == apc \in {"tts", "tts_final"}

\* where ask goes on when tts_stream_response is exhausted
AfterTts == IF apc = "tts" THEN "get" ELSE "join"

\* a tts_stream_response without its except clause: the exception leaves ask
RaiseToCaller == "raised"

\* where ask goes on when the request fails: tts_stream_response catches the
\* exception (or prints the non-200 status) and is exhausted
AfterTtsFailure == AfterTts

EndCall(calls, status) ==
  [calls EXCEPT ![Len(calls)].status = status]

\* tts_stream_response yields an audio chunk, ask yields it as ("", chunk)
TtsChunk ==
  /\ InTts
  /\ tts_calls[Len(tts_calls)].chunks < MaxChunks
  /\ out' = Append(out, AudioPair(Len(tts_calls),
                                  tts_calls[Len(tts_calls)].chunks + 1))
  /\ tts_calls' = [tts_calls EXCEPT ![Len(tts_calls)].chunks = @ + 1]
  /\ UNCHANGED <<prompt, context_id, with_tts, messages, full_response,
                 ai_queue, chunk, sentence_buffer, conversations, apc, ppc,
                 tokens, buffer_src, prior_len,
                 vadVars, memVars>>

\* the response body ends
TtsEnd ==
  /\ InTts
  /\ tts_calls' = EndCall(tts_calls, "ok")
  /\ apc' = AfterTts
  /\ UNCHANGED <<prompt, context_id, with_tts, messages, full_response,
                 ai_queue, chunk, sentence_buffer, conversations, ppc, tokens,
                 out, buffer_src, prior_len,
                 vadVars, memVars>>

\* the request fails or answers non-200, before or after some chunks
TtsFail ==
  /\ InTts
  /\ tts_calls' = EndCall(tts_calls, "failed")
  /\ apc' = AfterTtsFailure
  /\ UNCHANGED <<prompt, context_id, with_tts, messages, full_response,
                 ai_queue, chunk, sentence_buffer, conversations, ppc, tokens,
                 out, buffer_src, prior_len,
                 vadVars, memVars>>

\* await ai_task, then the assistant message
JoinAndRecord ==
  /\ apc = "join"
  /\ ppc = "done"
  /\ conversations' = RecordAssistant(conversations, context_id, full_response)
  /\ apc' = "done"
  /\ UNCHANGED <<prompt, context_id, with_tts, messages, full_response,
                 ai_queue, chunk, sentence_buffer, ppc, tokens, out, tts_calls,
                 buffer_src, prior_len,
                 vadVars, memVars>>

\* text-only mode: the model yields a chunk, yielded on if chunk.strip()
TextOnlyToken ==
  /\ apc = "stream"
  /\ Len(tokens) < MaxTokens
  /\ \E t \in Tokens :
       /\ tokens' = Append(tokens, t)
       /\ full_response' = IF Forwarded(t) THEN full_response \o t
                           ELSE full_response
       /\ out' = IF Forwarded(t) THEN Append(out, TextPair(t)) ELSE out
  /\ UNCHANGED <<prompt, context_id, with_tts, messages, ai_queue, chunk,
                 sentence_buffer, conversations, apc, ppc, tts_calls,
                 buffer_src, prior_len,
                 vadVars, memVars>>

\* text-only mode: the model's stream ends, then the assistant message
TextOnlyEnd ==
  /\ apc = "stream"
  /\ conversations' = RecordAssistant(conversations, context_id, full_response)
  /\ apc' = "done"
  /\ UNCHANGED <<prompt, context_id, with_tts, messages, full_response,
                 ai_queue, chunk, sentence_buffer, ppc, tokens, out, tts_calls,
                 buffer_src, prior_len,
                 vadVars, memVars>>

\* the caller closes or abandons the generator while it is suspended at a
\* yield: GeneratorExit ends ask there; nothing in ask handles it
Close ==
  /\ \/ apc = "text"
     \/ InTts /\ tts_calls[Len(tts_calls)].chunks > 0
     \/ apc = "stream" /\ out # <<>>
  /\ apc' = "closed"
  /\ UNCHANGED <<prompt, context_id, with_tts, messages, full_response,
                 ai_queue, chunk, sentence_buffer, conversations, ppc, tokens,
                 out, tts_calls, buffer_src, prior_len,
                 vadVars, memVars>>

NextAsk ==
  \/ AskStart
  \/ ProducerToken
  \/ ProducerEnd
  \/ GetToken
  \/ GetEnd
  \/ AfterText
  \/ TtsChunk
  \/ TtsEnd
  \/ TtsFail
  \/ JoinAndRecord
  \/ TextOnlyToken
  \/ TextOnlyEnd
  \/ Close

\* a ContinuousVAD and a VoiceBot just constructed, no conversation on disk
InitFresh ==
  /\ InitVAD
  /\ InitAsk
  /\ conversations = <<>>
  /\ mem_max_messages = max_messages
  /\ mem_log = <<>>
  /\ nasks = 0

\* the same, with the conversation file load_memory finds
InitLoaded ==
  /\ InitVAD
  /\ InitAsk
  /\ conversations \in PriorHistories
  /\ mem_max_messages = max_messages
  /\ mem_log = conversations
  /\ nasks = 0

SpecCapture == InitFresh /\ [][NextCapture]_vars

SpecLife == InitFresh /\ [][NextLife]_vars

SpecOpenFailure == InitFresh /\ [][NextOpenFailure]_vars

SpecStop == InitFresh /\ [][NextStop]_vars

\* the capture thread is scheduled as long as it has a step to take
SpecLost ==
  /\ InitFresh
  /\ [][NextLost]_vars
  /\ WF_vars(\E w \in Workers : Worker(w, MaxLostFrames, MaxLifeErrors))

SpecAsk == InitLoaded /\ [][NextAsk]_vars

\* ask(prompt, with_tts=True, context_id)
AskWithTts == AskStart /\ with_tts'

\* ask with synthesis, the model yielding chunks that end in whitespace
NextSpaced ==
  \/ AskWithTts
  \/ ProducerTokenFrom(SpacedTokens)
  \/ ProducerEnd
  \/ GetToken
  \/ GetEnd
  \/ AfterText
  \/ TtsChunk
  \/ TtsEnd
  \/ TtsFail
  \/ JoinAndRecord

SpecSpaced == InitLoaded /\ [][NextSpaced]_vars

\* the conversation file of earlier runs: n messages, user and assistant in
\* turn, all of context "general" or the exchanges of the two contexts in turn
HistoryOf(n, mixed) ==
  [i \in 1..n |->
     Message(IF mixed /\ ((i + 1) \div 2) % 2 = 0 THEN "other" ELSE "general",
             IF i % 2 = 1 THEN "user" ELSE "assistant",
             IF i % 2 = 1 THEN Tok_Hi ELSE Tok_Yes)]

\* no history, a history one message below max_messages, a full history
LoadedHistories ==
  {HistoryOf(n, mixed) :
     n \in {0, max_messages - 1, max_messages}, mixed \in BOOLEAN}

InitContext ==
  /\ InitVAD
  /\ InitAskLocals
  /\ conversations \in LoadedHistories
  /\ prior_len = Len(conversations)
  /\ mem_max_messages = max_messages
  /\ mem_log = conversations
  /\ nasks = 0

\* ask(prompt, with_tts=False, context_id)
AskTextOnly == AskStart /\ ~with_tts'

\* the generator is exhausted: the caller may call ask again
AskReturn ==
  /\ apc = "done"
  /\ nasks < MaxAsks
  /\ nasks' = nasks + 1
  /\ apc' = "idle"
  /\ UNCHANGED <<prompt, context_id, with_tts, messages, full_response,
                 ai_queue, chunk, sentence_buffer, conversations, ppc, tokens,
                 out, tts_calls, buffer_src, prior_len, mem_max_messages,
                 mem_log, vadVars>>

\* text-only ask calls one after the other on either context
NextContext ==
  \/ AskTextOnly
  \/ TextOnlyToken
  \/ TextOnlyEnd
  \/ AskReturn

SpecContext == InitContext /\ [][NextContext]_vars

\* ------------------------------------------------------------------ Memory

Roles == {"user", "assistant"}
Contents == {<<"H", "i">>, <<"Y", "o">>}

\* Memory(max_messages = n), load_memory finding no file or a file this
\* Memory wrote
InitMemory ==
  /\ InitVAD
  /\ InitAsk
  /\ mem_max_messages \in 1..MaxLimit
  /\ Len(conversations) <= mem_max_messages
  /\ mem_log = conversations
  /\ nasks = 0

\* a caller's memory.add_message(ctx, role, content)
AddMessageCall ==
  /\ Len(mem_log) < MaxAdds
  /\ \E ctx \in Contexts, role \in Roles, content \in Contents :
       /\ conversations' = AddMessageTo(conversations, mem_max_messages,
                                        ctx, role, content)
       /\ mem_log' = Append(mem_log, Message(ctx, role, content))
  /\ UNCHANGED <<prompt, context_id, with_tts, messages, full_response,
                 ai_queue, chunk, sentence_buffer, apc, ppc, tokens, out,
                 tts_calls, buffer_src, prior_len, mem_max_messages, nasks,
                 vadVars>>

NextMemory == AddMessageCall

SpecMemory == InitMemory /\ [][NextMemory]_vars

\* ------------------------------------------------- claims, ContinuousVAD

\* C1: a segment is put on speech_queue if and only if the utterance that
\* ends held a contiguous run of at least min_speech_frames speech frames
\* (lead-in not counted) before silence_threshold non-speech frames followed;
\* an utterance with a shorter speech run is discarded, never queued.
C1_QueuedIffSpeechRun ==
  [][(Len(speech_queue') > Len(speech_queue))
       <=> (is_speech_active /\ ~is_speech_active'
            /\ max_run >= min_speech_frames)]_vars

\* C2: in every segment, the first included, the frames in front of the
\* onset frame are the min(pre_speech_buffer_size, frames seen before the
\* onset) frames captured immediately before it, in capture order.  Stated
\* for the runs on which no read and no classification has failed.
C2_LeadInImmediatelyBeforeOnset ==
  (is_speech_active /\ nerrors = 0) =>
    LET k == Min(pre_speech_buffer_size, onset - 1)
    IN /\ Len(current_speech_frames) > k
       /\ current_speech_frames[k + 1] = onset
       /\ \A i \in 1..k : current_speech_frames[i] = onset - k + i - 1

\* C3: speech_queue never holds more segments than a configured capacity.
C3_QueueWithinCapacity ==
  speech_queue # <<>> => (0 < maxsize /\ Len(speech_queue) <= maxsize)

\* C10: once stop_listening has returned (once or twice in a row) and until
\* the next start_listening, the capture state is IDLE and stopped and the
\* stream and context fields are released.
C10_StoppedStaysIdle ==
  (stops_in_row >= 1 /\ mpc = "ready"
     /\ open_streams = {} /\ live_contexts = {}) =>
    /\ ~is_running
    /\ ~is_speech_active
    /\ current_speech_frames = <<>>
    /\ silence_count = 0
    /\ audio_stream = None
    /\ audio_context = None

\* ------------------------------------------------- claims, VoiceBot.ask

TextsOf(pairs) ==
  LET texts == SelectSeq(pairs, IsText)
  IN [i \in 1..Len(texts) |-> texts[i].text]

AudioCount(j) ==
  Cardinality({p \in 1..Len(out) : out[p].kind = "audio" /\ out[p].call = j})

\* the text cut after each '.', '!' or '?'
RECURSIVE CutAfterEach(_)
CutAfterEach(s) ==
  IF s = <<>> THEN <<>>
  ELSE IF ~\E i \in 1..Len(s) : IsPunct(s[i]) THEN <<s>>
  ELSE LET i == CHOOSE i \in 1..Len(s) :
                  IsPunct(s[i]) /\ \A j \in 1..(i - 1) : ~IsPunct(s[j])
       IN <<SubSeq(s, 1, i)>> \o CutAfterEach(SubSeq(s, i + 1, Len(s)))

NotBlank(s) == Strip(s) # <<>>

\* the pieces trimmed, the whitespace-only ones skipped
ExpectedSentences(s) ==
  LET pieces == SelectSeq(CutAfterEach(s), NotBlank)
  IN [i \in 1..Len(pieces) |-> Strip(pieces[i])]

NotEmpty(s) == s # <<>>

\* C4: with with_tts, the texts passed to tts_stream_response are, in order,
\* the pieces of the concatenated tokens cut after each '.', '!' or '?',
\* trimmed, whitespace-only pieces skipped, the unterminated tail last.
C4_OneCallPerSentence ==
  (apc = "done" /\ with_tts) =>
    [j \in 1..Len(tts_calls) |-> tts_calls[j].text]
      = ExpectedSentences(Concat(tokens))

\* C5: every audio pair comes after the text pair of the token that
\* completes its sentence and before the text pair of the next token, the
\* audio pairs of one sentence in the synthesizer's order, sentence N before
\* sentence N + 1.
C5_AudioFollowsCompletingToken ==
  \A p \in 1..Len(out) :
    out[p].kind = "audio" =>
      LET call == tts_calls[out[p].call]
          texts_before == Len(SelectSeq(SubSeq(out, 1, p - 1), IsText))
      IN /\ call.done_by <= texts_before
         /\ call.done_by # 0 => call.done_by = texts_before
         /\ \A q \in 1..(p - 1) :
              out[q].kind = "audio" =>
                \/ out[q].call < out[p].call
                \/ out[q].call = out[p].call /\ out[q].n < out[p].n

\* C6: every non-empty token the model yields, whitespace-only ones
\* included, is emitted exactly once as a text pair in arrival order, and
\* the transcript recorded to history is the concatenation of all tokens,
\* with and without with_tts.
C6_EveryTokenEmittedAndRecorded ==
  apc = "done" =>
    /\ TextsOf(out) = SelectSeq(tokens, NotEmpty)
    /\ full_response = Concat(tokens)
    /\ Concat(tokens) # <<>> =>
         conversations[Len(conversations)]
           = Message(context_id, "assistant", Concat(tokens))

\* C7: the user message is in Memory before token generation starts; the
\* assistant message, the full transcript, is recorded exactly once, only
\* when the output sequence is exhausted and the transcript is not empty,
\* after the last pair has been emitted.
C7_HistoryRecording ==
  /\ (ppc # "idle" \/ tokens # <<>>) =>
       /\ Len(conversations) > prior_len
       /\ conversations[prior_len + 1] = Message(context_id, "user", prompt)
  /\ apc # "idle" =>
       SubSeq(conversations, prior_len + 2, Len(conversations))
         = IF apc = "done" /\ full_response # <<>>
           THEN <<Message(context_id, "assistant", full_response)>>
           ELSE <<>>
  /\ apc = "done" =>
       /\ full_response = Concat(TextsOf(out))
       /\ ai_queue = <<>>

C7_Witness ==
  /\ apc = "done"
  /\ with_tts
  /\ Len(tokens) = MaxTokens
  /\ \E p \in 1..Len(out) : out[p].kind = "audio"
  /\ conversations[Len(conversations)]
       = Message(context_id, "assistant", full_response)

\* C8: a failed synthesis ends the audio of its sentence and nothing else:
\* ask raises nothing, no further audio pair of that sentence is emitted, and
\* the text of every later token and the audio of every later sentence are
\* emitted.
C8_TtsFailureIsLocal ==
  /\ apc # "raised"
  /\ \A j \in 1..Len(tts_calls) :
       tts_calls[j].status # "inflight" => AudioCount(j) = tts_calls[j].chunks
  /\ (apc = "done" /\ with_tts) =>
       /\ TextsOf(out) = SelectSeq(tokens, Forwarded)
       /\ \A j \in 1..Len(tts_calls) : tts_calls[j].status # "inflight"
       /\ Strip(Concat(TextsOf(out))) # <<>> => tts_calls # <<>>

C8_Witness ==
  /\ apc = "done"
  /\ \E j \in 1..Len(tts_calls) :
       /\ tts_calls[j].status = "failed"
       /\ j < Len(tts_calls)
       /\ tts_calls[j + 1].status = "ok"
       /\ AudioCount(j + 1) > 0
       /\ \E p \in 1..Len(out) : out[p].kind = "text" /\ tts_calls[j].at < p

\* C9: once the caller has closed or abandoned the generator, the
\* ai_generator task is stopped: it puts nothing more on ai_queue.
C9_ProducerStopsOnClose ==
  [][(apc = "closed" /\ with_tts) => ai_queue' = ai_queue]_vars

\* ------------------------------------------------------- claims, Memory

\* the messages of the log that a Memory keeping `limit` messages retains
Retained(log, limit) ==
  SubSeq(log, Len(log) - Min(Len(log), limit) + 1, Len(log))

RECURSIVE PairsOf(_, _)
PairsOf(msgs, ctx) ==
  IF msgs = <<>> THEN <<>>
  ELSE (IF Head(msgs).context_id = ctx
        THEN <<[role |-> Head(msgs).role, content |-> Head(msgs).content]>>
        ELSE <<>>) \o PairsOf(Tail(msgs), ctx)

\* C11: get_conversation_context(A) is exactly the retained messages added
\* with context id A, as role/content pairs in the order they were added,
\* and holds no message added under another context id.
C11_ProjectionByContext ==
  \A ctx \in Contexts :
    GetConversationContext(conversations, ctx)
      = PairsOf(Retained(mem_log, mem_max_messages), ctx)

C11_Witness ==
  /\ Len(mem_log) > Len(conversations)
  /\ Len(GetConversationContext(conversations, "general")) >= 2
  /\ Len(conversations) = 3
  /\ conversations[2].context_id = "other"
  /\ conversations[1].content # conversations[3].content

\* C12: after every add_message the stored list has at most max_messages
\* messages and is exactly the most recent max_messages messages of the
\* global append order, whatever their context ids.
C12_GlobalTruncation ==
  /\ Len(conversations) <= mem_max_messages
  /\ Len(conversations) = Min(Len(mem_log), mem_max_messages)
  /\ \A i \in 1..Len(conversations) :
       conversations[i] = mem_log[Len(mem_log) - Len(conversations) + i]

\* a message of context "general" evicted by appends to context "other"
C12_Witness ==
  /\ Len(mem_log) > mem_max_messages
  /\ mem_log[1].context_id = "general"
  /\ \A i \in 2..Len(mem_log) : mem_log[i].context_id = "other"
  /\ \A i \in 1..Len(conversations) : conversations[i].context_id = "other"
  /\ Len(conversations) = mem_max_messages

\* ------------------------------------------- claims, ContinuousVAD life cycle

\* C13: when the microphone cannot be opened, start_listening returns (its
\* handler runs stop_listening to the end) leaving the object stopped and
\* IDLE, stream and context fields None, and no capture thread started by
\* the call; a later start_listening finds is_running false.
C13_OpenFailureLeavesIdle ==
  [][(/\ last_call' = "start_failed"
      /\ mpc' = "ready"
      /\ (mpc # "ready" \/ last_call # "start_failed"))
       => /\ ~is_running'
          /\ ~is_speech_active'
          /\ current_speech_frames' = <<>>
          /\ silence_count' = 0
          /\ audio_stream' = None
          /\ audio_context' = None
          /\ wpc'[nstarts'] = "none"
          /\ listen_thread' # nstarts']_vars

\* an opening that failed after an earlier session
C13_Witness ==
  /\ last_call = "start_failed"
  /\ mpc = "ready"
  /\ nstarts = 2
  /\ wpc[1] # "none"
  /\ stops_in_row = 2

\* ---------------------------------------- claims, VoiceBot.ask (continued)

\* the tokens that hold something besides whitespace
RECURSIVE NonBlankOf(_)
NonBlankOf(ts) ==
  IF ts = <<>> THEN <<>>
  ELSE (IF \E i \in 1..Len(Head(ts)) : ~IsSpace(Head(ts)[i])
        THEN <<Head(ts)>> ELSE <<>>) \o NonBlankOf(Tail(ts))

\* C14: with with_tts = False every emitted pair is (token, None) with a
\* non-empty token, in token arrival order; tts_stream_response is never
\* called and no sentence buffer is kept.
C14_TextOnlyMode ==
  (~with_tts /\ apc # "idle") =>
    /\ \A p \in 1..Len(out) :
         /\ out[p].kind = "text"
         /\ out[p].text # <<>>
         /\ out[p].call = 0
    /\ TextsOf(out) = NonBlankOf(tokens)
    /\ tts_calls = <<>>
    /\ sentence_buffer = <<>>
    /\ buffer_src = <<>>
    /\ ai_queue = <<>>

C14_Witness ==
  /\ ~with_tts
  /\ apc = "done"
  /\ Len(tokens) = MaxTokens
  /\ Len(out) = MaxTokens
  /\ \E i \in 1..Len(tokens) : HasPunct(tokens[i])

\* --------------------------- claims, ContinuousVAD life cycle (continued)

\* C15: after stop_listening has been requested during an ACTIVE segment,
\* that segment is never put on speech_queue: from the request on (and until
\* a later start_listening) speech_queue does not grow.
C15_NoSegmentQueuedAfterStop ==
  [][(last_call = "stop" /\ ~is_running)
       => Len(speech_queue') <= Len(speech_queue)]_vars

\* C16: at any time at most one capture thread executes
\* _audio_processing_loop, whatever the sequence of start_listening and
\* stop_listening calls.
C16_SingleCaptureThread ==
  Cardinality({w \in Workers : IsAlive(w)}) <= 1

\* C17: when the producer ends or fails at any point, the sentinel reaches
\* the consumer: the consumer never waits on an empty queue with the
\* producer gone, ask raises nothing, and when ask ends every token produced
\* has been emitted as text, the unterminated remainder has been synthesized
\* and the transcript of the tokens is recorded.
C17_ProducerEndReachesConsumer ==
  /\ (apc = "get" /\ ai_queue = <<>>) => ppc = "running"
  /\ apc # "raised"
  /\ (apc = "done" /\ with_tts) =>
       /\ TextsOf(out) = SelectSeq(tokens, NotEmpty)
       /\ Strip(sentence_buffer) # <<>> =>
            /\ tts_calls # <<>>
            /\ tts_calls[Len(tts_calls)].text = sentence_buffer
       /\ Concat(tokens) # <<>> =>
            conversations[Len(conversations)]
              = Message(context_id, "assistant", Concat(tokens))

\* the session's stream is gone while the session is running
Lost == is_running /\ audio_stream # None /\ audio_stream \notin open_streams

\* C18: when frame reads fail persistently during an ACTIVE segment, the
\* capture loop eventually forces the assembler back to IDLE, the partial
\* segment discarded.
C18_PersistentFailureForcesIdle ==
  (Lost /\ is_speech_active) ~> (~is_speech_active /\ current_speech_frames = <<>>)

\* C19: a frame whose classification fails is handled like a non-speech
\* frame: in IDLE it is pushed to pre_speech_buffer, in ACTIVE it is appended
\* to current_speech_frames and counted in silence_count, or it finalizes
\* the segment.
C19_ClassifierFailureIsNonSpeech ==
  [][\A w \in Workers :
       (wpc[w] = "proc" /\ wpc'[w] = "loop" /\ nerrors' > nerrors) =>
         IF is_speech_active
         THEN \/ /\ current_speech_frames'
                      = Append(current_speech_frames, wframe[w])
                 /\ silence_count' = silence_count + 1
              \/ /\ ~is_speech_active'
                 /\ Len(speech_queue') > Len(speech_queue)
         ELSE pre_speech_buffer' = PushPreSpeech(pre_speech_buffer, wframe[w])]_vars

\* the number of '.', '!' and '?' in a text
NPuncts(text) == Cardinality({i \in 1..Len(text) : IsPunct(text[i])})

\* C20: once a token has been processed (before the next one is taken) the
\* pending sentence_buffer holds no '.', '!' or '?', and every sentence
\* dispatched before the end of the stream holds exactly one terminator, its
\* last character.
C20_NoTerminatorLeftPending ==
  (with_tts /\ apc = "get") =>
    /\ ~HasPunct(sentence_buffer)
    /\ \A j \in 1..Len(tts_calls) :
         ~tts_calls[j].final =>
           /\ NPuncts(tts_calls[j].text) = 1
           /\ IsPunct(tts_calls[j].text[Len(tts_calls[j].text)])

\* the text without its whitespace
RECURSIVE NoSpaces(_)
NoSpaces(s) ==
  IF s = <<>> THEN <<>>
  ELSE (IF IsSpace(Head(s)) THEN <<>> ELSE <<Head(s)>>) \o NoSpaces(Tail(s))

\* a space of s between two words of one sentence: the nearest characters
\* that are not spaces, on both sides, exist and the left one is no terminator
InsideSentence(s, i) ==
  /\ IsSpace(s[i])
  /\ \E j \in 1..(i - 1) :
       /\ ~IsSpace(s[j])
       /\ ~IsPunct(s[j])
       /\ \A k \in (j + 1)..i : IsSpace(s[k])
  /\ \E j \in (i + 1)..Len(s) : ~IsSpace(s[j])

\* the text without the whitespace at its two ends and after terminators
Squeeze(s) ==
  LET Kept(i) == ~IsSpace(s[i]) \/ InsideSentence(s, i)
      F[i \in 0..Len(s)] ==
        IF i = 0 THEN <<>>
        ELSE IF Kept(i) THEN Append(F[i - 1], s[i]) ELSE F[i - 1]
  IN F[Len(s)]

\* the texts passed to tts_stream_response, in dispatch order
CallTexts == [j \in 1..Len(tts_calls) |-> tts_calls[j].text]

\* C21: with with_tts, the concatenation of the texts passed to
\* tts_stream_response, the final remainder included, is the concatenation
\* of the tokens but for whitespace at sentence boundaries and at the two
\* ends: the characters that are not whitespace are the same in the same
\* order, and the whitespace between two words of a sentence is kept.
C21_SynthesizedTextIsTokenText ==
  (apc = "done" /\ with_tts) =>
    /\ NoSpaces(Concat(CallTexts)) = NoSpaces(Concat(tokens))
    /\ Squeeze(Concat(CallTexts)) = Squeeze(Concat(tokens))

\* the calls that synthesize the remainder at the end of the stream
FinalCalls == {j \in 1..Len(tts_calls) : tts_calls[j].final}

\* the None has been taken from ai_queue
SentinelConsumed == with_tts /\ apc \in {"tts_final", "join", "done"}

\* C22: when the None is consumed the remaining sentence_buffer is
\* synthesized exactly once if and only if it holds a character that is not
\* whitespace, with or without a terminator; the audio pairs of that call are
\* the last pairs of the output, after every text pair; and no text passed
\* to synthesis is empty or whitespace-only.
C22_RemainderFlushedAtEnd ==
  /\ \A j \in 1..Len(tts_calls) : NotBlank(tts_calls[j].text)
  /\ FinalCalls \subseteq {Len(tts_calls)}
  /\ FinalCalls # {} => SentinelConsumed \/ apc = "closed"
  /\ SentinelConsumed =>
       /\ (FinalCalls # {}) <=> NotBlank(sentence_buffer)
       /\ \A j \in FinalCalls : tts_calls[j].text = sentence_buffer
       /\ TextsOf(out) = SelectSeq(tokens, Forwarded)
  /\ \A p \in 1..Len(out) :
       (out[p].kind = "audio" /\ out[p].call \in FinalCalls) =>
         \A q \in (p + 1)..Len(out) :
           out[q].kind = "audio" /\ out[q].call = out[p].call

C22_Witness ==
  /\ apc = "done"
  /\ with_tts
  /\ FinalCalls # {}
  /\ ~HasPunct(sentence_buffer)
  /\ Len(tts_calls) > 1
  /\ \E p \in 1..Len(out) : out[p].kind = "audio" /\ out[p].call \in FinalCalls

\* the tts_stream_response calls that have not ended
InFlight == {j \in 1..Len(tts_calls) : tts_calls[j].status = "inflight"}

\* C23: within one ask at most one tts_stream_response call is in flight,
\* and while one is in flight no token is taken from ai_queue; the producer
\* runs on meanwhile, and every token it produces then is put on ai_queue
\* and waits there.
C23_OneSynthesisAtATime ==
  [][/\ Cardinality(InFlight) <= 1
     /\ InTts =>
          /\ Len(ai_queue') >= Len(ai_queue)
          /\ SubSeq(ai_queue', 1, Len(ai_queue)) = ai_queue
          /\ (tokens' # tokens /\ tokens'[Len(tokens')] # <<>>) =>
               ai_queue' = Append(ai_queue, tokens'[Len(tokens')])]_vars

\* ------------------------------- claims, ContinuousVAD segment assembly

\* thread w ends the loop iteration of the frame it has read
FrameDone(w) == wpc[w] = "proc" /\ wpc'[w] = "loop"

\* C24: at every loop iteration boundary silence_count is below
\* silence_threshold, and in IDLE current_speech_frames is empty and
\* silence_count is 0; every frame read while ACTIVE is appended to
\* current_speech_frames, with silence_count set to 0 (speech) or raised by
\* one (non-speech), and the iteration in which silence_count reaches
\* silence_threshold ends in IDLE.
C24_AssemblerInvariants ==
  [][/\ silence_count' < silence_threshold
     /\ ~is_speech_active' =>
          current_speech_frames' = <<>> /\ silence_count' = 0
     /\ \A w \in Workers :
          (FrameDone(w) /\ is_speech_active) =>
            \/ /\ is_speech_active'
               /\ current_speech_frames'
                    = Append(current_speech_frames, wframe[w])
               /\ silence_count' \in {0, silence_count + 1}
            \/ /\ ~is_speech_active'
               /\ silence_count + 1 = silence_threshold]_vars

\* the last n elements of a sequence
LastOf(q, n) == SubSeq(q, Max(1, Len(q) - n + 1), Len(q))

\* frames in the order the microphone delivered them
InCaptureOrder(q) == \A i, j \in 1..Len(q) : i < j => q[i] < q[j]

\* C25: at every loop iteration boundary pre_speech_buffer holds at most
\* pre_speech_buffer_size frames; a non-speech frame in IDLE is appended, the
\* oldest frame evicted when the buffer is full, so that the buffer holds the
\* most recent IDLE non-speech frames in capture order; a frame read while
\* ACTIVE does not change the buffer.
C25_PreSpeechBufferBounded ==
  [][/\ Len(pre_speech_buffer') <= pre_speech_buffer_size
     /\ InCaptureOrder(pre_speech_buffer')
     /\ \A w \in Workers :
          FrameDone(w) =>
            \/ pre_speech_buffer' = pre_speech_buffer
            \/ /\ ~is_speech_active
               /\ pre_speech_buffer'
                    = LastOf(Append(pre_speech_buffer, wframe[w]),
                             pre_speech_buffer_size)]_vars

\* ------------------------------------------- claims, the model's context

\* C26: in every ask call, whatever the history before it (a list already
\* at max_messages, asks on other contexts in between), the list passed to
\* gen_ai_stream_response holds the role/content pairs of the messages of
\* context_id only, in insertion order, and its last element is the user
\* message with the prompt of this call.
C26_ContextEndsWithPrompt ==
  apc = "stream" =>
    /\ messages = PairsOf(conversations, context_id)
    /\ messages # <<>>
    /\ messages[Len(messages)] = [role |-> "user", content |-> prompt]
    /\ Len(conversations) <= max_messages

\* an ask on a full history, after an ask on the other context
C26_Witness ==
  /\ apc = "stream"
  /\ nasks >= 1
  /\ Len(mem_log) = max_messages
  /\ Len(conversations) = max_messages
  /\ Len(messages) >= 2
  /\ \E i \in 1..Len(conversations) :
       /\ conversations[i].context_id # context_id
       /\ conversations[i].content = prompt

=============================================================================
